---- MODULE Spec2Model ----
\* Model of the snapcast stream server coordinator (server/streamServer.cpp):
\* the session roster sessions_, the coordinator mutex mutex_, the producer
\* fan-out send, the binary dispatcher onMessageReceived for client sessions,
\* the JSON-RPC dispatcher onMessageReceived for control sessions,
\* onDisconnect, handleAccept and stop.
\*
\* ClientSession, Config, JsonRequest, ControlServer and PipeReader are
\* declared outside streamServer.cpp; the parts of them the coordinator
\* calls are modelled from the design document and are marked so below.
EXTENDS Integers, Sequences, FiniteSets, TLC

\* ------------------------------ bounds --------------------------------

\* number of client connections accepted during a run
MaxSessions == 2
\* number of external events of a run: binary messages, PCM chunks, JSON-RPC
\* requests, socket failures, the call of stop
MaxOps == 3
\* settings_.bufferMs, the configured buffer target
BufferMs == 2

\* --------------------------- program constants ------------------------

\* lower latency limit of Client.SetLatency
MinLatency == -10000
\* upper volume limit of Client.SetVolume
MaxVolume == 100
\* JSON-RPC error kinds (the exception classes of json/jsonrpc.h)
ParseError == "ParseError"
MethodNotFound == "MethodNotFound"
InvalidParams == "InvalidParams"
InternalError == "InternalError"
NoError == "ok"

\* ------------------------------ inputs --------------------------------

Sessions == 1..MaxSessions
\* MAC addresses the clients advertise; "" is a session's macAddress before Hello
Macs == {"m1", "m2"}
NoMac == ""
HostNames == {"pi"}
Versions == {"0.10"}
Verbs == {"startStream", "stop"}
RequestKinds == {"kTime", "kServerSettings", "kSampleFormat", "kHeader"}
\* sent and received time stamps <<sec, usec>> of a Time request
SentStamps == {<<100, 0>>}
ReceivedStamps == {<<101, 500000>>}

Methods == {"System.GetStatus", "Client.SetVolume", "Client.SetMute",
            "Client.SetLatency", "Client.SetName", "Client.SetFoo", "Foo.Bar"}
NoParam == "<none>"
\* request ids of the JSON-RPC requests
RpcIds == {7}
ClientParams == Macs \cup {NoParam}
VolumeInputs == {-1, 42, MaxVolume + 1}
LatencyInputs == {MinLatency - 1, MinLatency, BufferMs, BufferMs + 1}
MuteInputs == {TRUE, FALSE}
NameInputs == {"living room"}

\* threads
NoThread == <<"none", 0>>
Producer == <<"producer", 0>>
Stopper == <<"stopper", 0>>
Control == <<"control", 0>>
Reader(s) == <<"reader", s>>
Reaper(s) == <<"reaper", s>>

VARIABLES
    sessions_,      \* the roster: set of sessions (std::set<shared_ptr<ClientSession>>)
    mutex_,         \* thread holding the coordinator mutex, or NoThread
    accepted,       \* number of connections accepted so far
    macAddress,     \* ClientSession::macAddress of each session
    active,         \* ClientSession::active() of each session
    streamActive,   \* ClientSession stream flag, set by setStreamActive
    stopCount,      \* number of times stop() ran on each session
    disconnected,   \* the session has called onDisconnect
    gotStart,       \* the session has sent Command{startStream}
    outbound,       \* frames handed to each session (send / accepted add), in order
    readerPc,       \* position of each session's reader: "idle", "lock" or "start"
    readerReq,      \* the request a reader at "lock" is dispatching
    config,         \* Config: MAC -> ClientInfo or NoClient
    sampleFormatRef,\* sampleFormat_.refersTo
    headerRef,      \* pipeReader_->getHeader()->refersTo
    producerPc,     \* position of the producer inside send(): "idle" or "enqueue"
    chunks,         \* number of chunks passed to onChunkRead so far
    reapTasks,      \* detached threads spawned by send() that have not run yet
    stopPc,         \* position of StreamServer::stop(): "run","lock","sessions","done"
    toStop,         \* sessions stop() still has to visit
    stopping,       \* the session whose stop() the loop of stop() is inside, 0 if none
    ops,            \* external events so far; the next binary message has id ops + 1
    events          \* what the last step did, in program order

vars == <<sessions_, mutex_, accepted, macAddress, active, streamActive, stopCount,
          disconnected, gotStart, outbound, readerPc, readerReq, config,
          sampleFormatRef, headerRef, producerPc, chunks, reapTasks, stopPc, toStop,
          stopping, ops, events>>

\* ------------------------- Config (ClientInfo store) -------------------

\* a fresh ClientInfo, as Config creates it for a MAC it does not know
DefaultClientInfo(mac) ==
    [macAddress |-> mac, hostName |-> "", ipAddress |-> 0, version |-> "",
     name |-> "", connected |-> FALSE, volume |-> MaxVolume, muted |-> FALSE,
     latency |-> 0]

\* Config::getClientInfo(mac, add): the store after the call; with add, an
\* unknown MAC gets a fresh record
getClientInfo(cfg, mac, add) ==
    IF mac \in DOMAIN cfg \/ ~add
    THEN cfg
    ELSE [m \in DOMAIN cfg \cup {mac} |->
            IF m = mac THEN DefaultClientInfo(mac) ELSE cfg[m]]

\* ------------------------------ frames --------------------------------

Frame(type, refersTo) ==
    [type |-> type, refersTo |-> refersTo, latency |-> 0, bufferMs |-> 0,
     volume |-> 0, muted |-> FALSE, chunk |-> 0]

\* msg::Time with the latency in microseconds
TimeMsg(id, sent, received) ==
    [Frame("Time", id) EXCEPT
        !.latency = (received[1] - sent[1]) * 1000000 + (received[2] - sent[2])]

\* msg::ServerSettings filled from a ClientInfo
ServerSettingsMsg(id, info) ==
    [Frame("ServerSettings", id) EXCEPT
        !.bufferMs = BufferMs, !.volume = info.volume, !.muted = info.muted,
        !.latency = info.latency]

PcmChunk(c) == [Frame("PcmChunk", 0) EXCEPT !.chunk = c]

\* ClientSession::send: the frame is handed to the session's outbound queue
SessionSend(q, frame) == Append(q, frame)

\* ClientSession::add: a frame is enqueued only while the stream is active
SessionAdd(q, frame, streaming) == IF streaming THEN Append(q, frame) ELSE q

\* ------------------------------ events --------------------------------

\* controlServer_->send of a notification or of a text line
Notify(what, mac, info) == [ev |-> "control", what |-> what, mac |-> mac, data |-> info]
\* Config::instance().save()
Save == [ev |-> "save", what |-> "", mac |-> "", data |-> [to |-> 0]]
\* a frame handed to connection->send / session->send of one session;
\* locked: the calling thread holds mutex_
Sent(s, frame, locked) ==
    [ev |-> "send", what |-> frame.type, mac |-> "",
     data |-> [to |-> s, frame |-> frame, locked |-> locked]]
\* a binary message of session s enters onMessageReceived: what is "Hello",
\* "Command" or "Request", arg its strings (host name and version, the verb,
\* the request kind)
Received(s, what, mac, id, arg) ==
    [ev |-> "receive", what |-> what, mac |-> mac,
     data |-> [to |-> s, id |-> id, arg |-> arg]]
\* the key of the parameter a method reads with request.getParam, "" if none
ParamKey(method) ==
    CASE method = "Client.SetVolume" -> "volume"
      [] method = "Client.SetMute" -> "mute"
      [] method = "Client.SetLatency" -> "latency"
      [] method = "Client.SetName" -> "name"
      [] OTHER -> ""
\* the reply sent to the JSON-RPC caller, with the request it answers; the
\* request's value is kept as <<key, value>>, the result as <<method, result>>
\* for a success and <<"", 0>> for an error
Response(id, error, message, result, method, client, v) ==
    [ev |-> "response", what |-> error, mac |-> "",
     data |-> [id |-> id, message |-> message,
               result |-> <<IF error = NoError THEN method ELSE "", result>>,
               method |-> method, client |-> client,
               value |-> <<ParamKey(method), v>>]]
\* a ClientInfo is created or one of its fields assigned; locked: the acting
\* thread holds mutex_
Mutated(mac, locked) ==
    [ev |-> "mutate", what |-> "", mac |-> mac, data |-> [locked |-> locked]]
\* the roster is changed ("insert", "erase") or scanned ("read")
Roster(what, locked) ==
    [ev |-> "roster", what |-> what, mac |-> "", data |-> [locked |-> locked]]
\* a call of stop() on a session; locked: the calling thread holds mutex_
Stopped(s, locked) ==
    [ev |-> "stop", what |-> "", mac |-> "", data |-> [to |-> s, locked |-> locked]]

\* the thread holds the coordinator mutex
Holds(thread) == mutex_ = thread

\* ------------------------------- Init ----------------------------------

Init ==
    /\ sessions_ = {}
    /\ mutex_ = NoThread
    /\ accepted = 0
    /\ macAddress = [s \in Sessions |-> NoMac]
    /\ active = [s \in Sessions |-> FALSE]
    /\ streamActive = [s \in Sessions |-> FALSE]
    /\ stopCount = [s \in Sessions |-> 0]
    /\ disconnected = [s \in Sessions |-> FALSE]
    /\ gotStart = [s \in Sessions |-> FALSE]
    /\ outbound = [s \in Sessions |-> <<>>]
    /\ readerPc = [s \in Sessions |-> "idle"]
    /\ readerReq = [s \in Sessions |-> [kind |-> "", id |-> 0]]
    /\ config = <<>>
    /\ sampleFormatRef = 0
    /\ headerRef = 0
    /\ producerPc = "idle"
    /\ chunks = 0
    /\ reapTasks = {}
    /\ stopPc = "run"
    /\ toStop = {}
    /\ stopping = 0
    /\ ops = 0
    /\ events = <<>>

\* ---------------------------- handleAccept -----------------------------

\* a new connection: the session is started and inserted under mutex_
handleAccept ==
    /\ stopPc = "run"
    /\ accepted < MaxSessions
    /\ mutex_ = NoThread
    /\ LET s == accepted + 1 IN
        /\ accepted' = s
        /\ active' = [active EXCEPT ![s] = TRUE]
        /\ streamActive' = [streamActive EXCEPT ![s] = FALSE]
        /\ sessions_' = sessions_ \cup {s}
    /\ events' = <<Roster("insert", TRUE)>>
    /\ UNCHANGED <<mutex_, macAddress, stopCount, disconnected, gotStart, outbound,
                   readerPc, readerReq, config, sampleFormatRef, headerRef,
                   producerPc, chunks, reapTasks, stopPc, toStop, stopping, ops>>

\* ------------------- binary dispatch: Hello, Command, Time -------------

\* the id the client gives its next message
NextId == ops + 1

\* the reader of session s can deliver a message to the coordinator
CanReceive(s) ==
    /\ s <= accepted
    /\ active[s]
    /\ readerPc[s] = "idle"
    /\ ops < MaxOps

\* the version of the Hello is not stored
HelloInfo_NoVersion(info, s, host, version) ==
    [info EXCEPT !.ipAddress = s, !.hostName = host, !.connected = TRUE]

\* the ClientInfo after the Hello branch filled it
HelloInfo(info, s, host, version) ==
    [info EXCEPT !.ipAddress = s, !.hostName = host, !.version = version,
                 !.connected = TRUE]

\* Hello: bind the MAC, look up or create the ClientInfo, fill it, save, notify
Hello(s, mac, host, version) ==
    /\ CanReceive(s)
    /\ ops' = ops + 1
    /\ macAddress' = [macAddress EXCEPT ![s] = mac]
    /\ LET cfg == getClientInfo(config, mac, TRUE) IN
        /\ config' = [cfg EXCEPT ![mac] = HelloInfo(cfg[mac], s, host, version)]
        /\ events' = <<Received(s, "Hello", mac, NextId, <<host, version>>),
                      Mutated(mac, Holds(Reader(s))), Save,
                      Notify("Client.OnConnect", mac, config'[mac])>>
    /\ UNCHANGED <<sessions_, mutex_, accepted, active, streamActive, stopCount,
                   disconnected, gotStart, outbound, readerPc, readerReq,
                   sampleFormatRef, headerRef, producerPc, chunks, reapTasks,
                   stopPc, toStop, stopping>>

\* the stream is switched on by every verb
Command_AnyVerb(s, verb) ==
    LET id == NextId IN
    /\ CanReceive(s)
    /\ ops' = ops + 1
    /\ readerPc' = [readerPc EXCEPT ![s] = "start"]
    /\ IF verb = "startStream"
       THEN /\ outbound' = [outbound EXCEPT ![s] = SessionSend(@, Frame("Ack", id))]
            /\ gotStart' = [gotStart EXCEPT ![s] = TRUE]
            /\ events' = <<Received(s, "Command", "", id, <<verb>>),
                          Sent(s, Frame("Ack", id), Holds(Reader(s)))>>
       ELSE /\ UNCHANGED <<outbound, gotStart>>
            /\ events' = <<Received(s, "Command", "", id, <<verb>>)>>
    /\ UNCHANGED <<sessions_, mutex_, accepted, macAddress, active, streamActive,
                   stopCount, disconnected, readerReq, config, sampleFormatRef,
                   headerRef, producerPc, chunks, reapTasks, stopPc, toStop, stopping>>

\* startStream is not acknowledged
Command_NoAck(s, verb) ==
    LET id == NextId IN
    /\ CanReceive(s)
    /\ ops' = ops + 1
    /\ IF verb = "startStream"
       THEN /\ gotStart' = [gotStart EXCEPT ![s] = TRUE]
            /\ readerPc' = [readerPc EXCEPT ![s] = "start"]
       ELSE /\ UNCHANGED <<gotStart, readerPc>>
    /\ events' = <<Received(s, "Command", "", id, <<verb>>)>>
    /\ UNCHANGED <<sessions_, mutex_, accepted, macAddress, active, streamActive,
                   stopCount, disconnected, outbound, readerReq, config,
                   sampleFormatRef, headerRef, producerPc, chunks, reapTasks, stopPc,
                   toStop, stopping>>

\* Command: startStream is acknowledged, and the reader goes on to switch the
\* stream on; any other verb is ignored
Command(s, verb) ==
    LET id == NextId IN
    /\ CanReceive(s)
    /\ ops' = ops + 1
    /\ IF verb = "startStream"
       THEN /\ outbound' = [outbound EXCEPT ![s] = SessionSend(@, Frame("Ack", id))]
            /\ gotStart' = [gotStart EXCEPT ![s] = TRUE]
            /\ readerPc' = [readerPc EXCEPT ![s] = "start"]
            /\ events' = <<Received(s, "Command", "", id, <<verb>>),
                          Sent(s, Frame("Ack", id), Holds(Reader(s)))>>
       ELSE /\ UNCHANGED <<outbound, gotStart, readerPc>>
            /\ events' = <<Received(s, "Command", "", id, <<verb>>)>>
    /\ UNCHANGED <<sessions_, mutex_, accepted, macAddress, active, streamActive,
                   stopCount, disconnected, readerReq, config, sampleFormatRef,
                   headerRef, producerPc, chunks, reapTasks, stopPc, toStop, stopping>>

\* Command{startStream}, continued: connection->setStreamActive(true), after
\* the Ack was handed to the session
setStreamActive(s) ==
    /\ readerPc[s] = "start"
    /\ readerPc' = [readerPc EXCEPT ![s] = "idle"]
    /\ streamActive' = [streamActive EXCEPT ![s] = TRUE]
    /\ events' = <<>>
    /\ UNCHANGED <<sessions_, mutex_, accepted, macAddress, active, stopCount,
                   disconnected, gotStart, outbound, readerReq, config,
                   sampleFormatRef, headerRef, producerPc, chunks, reapTasks, stopPc,
                   toStop, stopping, ops>>

\* Request{kTime}: answered without the mutex
RequestTime(s, sent, received) ==
    LET id == NextId IN
    /\ CanReceive(s)
    /\ ops' = ops + 1
    /\ outbound' = [outbound EXCEPT ![s] = SessionSend(@, TimeMsg(id, sent, received))]
    /\ events' = <<Received(s, "Request", "", id, <<"kTime">>),
                  Sent(s, TimeMsg(id, sent, received), Holds(Reader(s)))>>
    /\ UNCHANGED <<sessions_, mutex_, accepted, macAddress, active, streamActive,
                   stopCount, disconnected, gotStart, readerPc, readerReq, config,
                   sampleFormatRef, headerRef, producerPc, chunks, reapTasks,
                   stopPc, toStop, stopping>>

\* ------------- binary dispatch: the requests that take mutex_ ----------

\* Request{kServerSettings | kSampleFormat | kHeader} arrives: the reader
\* enters the branch and waits for mutex_
RequestLock(s, kind) ==
    LET id == NextId IN
    /\ CanReceive(s)
    /\ kind \in RequestKinds \ {"kTime"}
    /\ ops' = ops + 1
    /\ readerPc' = [readerPc EXCEPT ![s] = "lock"]
    /\ readerReq' = [readerReq EXCEPT ![s] = [kind |-> kind, id |-> id]]
    /\ events' = <<Received(s, "Request", "", id, <<kind>>)>>
    /\ UNCHANGED <<sessions_, mutex_, accepted, macAddress, active, streamActive,
                   stopCount, disconnected, gotStart, outbound, config,
                   sampleFormatRef, headerRef, producerPc, chunks, reapTasks,
                   stopPc, toStop, stopping>>

\* the reader got mutex_: it builds the reply, sends it and releases mutex_
RequestReply(s) ==
    /\ readerPc[s] = "lock"
    /\ mutex_ = NoThread
    /\ LET kind == readerReq[s].kind
           id == readerReq[s].id
           cfg == getClientInfo(config, macAddress[s], TRUE)
           sampleRef == IF kind = "kSampleFormat" THEN id ELSE sampleFormatRef
           hdrRef == IF kind = "kHeader" THEN id ELSE headerRef
           reply == CASE kind = "kServerSettings" -> ServerSettingsMsg(id, cfg[macAddress[s]])
                      [] kind = "kSampleFormat" -> Frame("SampleFormat", sampleRef)
                      [] OTHER -> Frame("Header", hdrRef)
       IN
        /\ config' = IF kind = "kServerSettings" THEN cfg ELSE config
        /\ sampleFormatRef' = sampleRef
        /\ headerRef' = hdrRef
        /\ outbound' = [outbound EXCEPT ![s] = SessionSend(@, reply)]
        /\ events' = (IF kind = "kServerSettings" /\ macAddress[s] \notin DOMAIN config
                       THEN <<Mutated(macAddress[s], TRUE)>> ELSE <<>>)
                      \o <<Sent(s, reply, TRUE)>>
    /\ readerPc' = [readerPc EXCEPT ![s] = "idle"]
    /\ readerReq' = [readerReq EXCEPT ![s] = [kind |-> "", id |-> 0]]
    /\ UNCHANGED <<sessions_, mutex_, accepted, macAddress, active, streamActive,
                   stopCount, disconnected, gotStart, producerPc, chunks, reapTasks,
                   stopPc, toStop, stopping, ops>>

\* ------------------------- session life cycle --------------------------

\* the session's socket fails or its send times out: active() turns false
SessionFail(s) ==
    /\ s <= accepted
    /\ active[s]
    /\ ops < MaxOps
    /\ ops' = ops + 1
    /\ active' = [active EXCEPT ![s] = FALSE]
    /\ events' = <<>>
    /\ UNCHANGED <<sessions_, mutex_, accepted, macAddress, streamActive, stopCount,
                   disconnected, gotStart, outbound, readerPc, readerReq, config,
                   sampleFormatRef, headerRef, producerPc, chunks, reapTasks,
                   stopPc, toStop, stopping>>

\* the ClientInfo after onDisconnect flagged it
DisconnectInfo(info) == [info EXCEPT !.connected = FALSE]

\* StreamServer::onDisconnect, called once by a session that has terminated
onDisconnect(s) ==
    /\ s <= accepted
    /\ ~active[s]
    /\ ~disconnected[s]
    /\ disconnected' = [disconnected EXCEPT ![s] = TRUE]
    /\ LET mac == macAddress[s]
           cfg == getClientInfo(config, mac, TRUE) IN
        /\ config' = [cfg EXCEPT ![mac] = DisconnectInfo(cfg[mac])]
        /\ events' = <<Mutated(mac, Holds(Reader(s))), Save,
                      Notify("Client.OnDisconnect", mac, config'[mac])>>
    /\ UNCHANGED <<sessions_, mutex_, accepted, macAddress, active, streamActive,
                   stopCount, gotStart, outbound, readerPc, readerReq,
                   sampleFormatRef, headerRef, producerPc, chunks, reapTasks,
                   stopPc, toStop, stopping, ops>>

\* ClientSession::stop returns only when the session's reader has ended; a
\* reader inside a callback of the coordinator has not
CanStop(s) == readerPc[s] = "idle"

\* ------------------------------ fan-out -------------------------------

\* the orders in which a loop can visit the elements of a set
Orderings(S) ==
    {f \in [1..Cardinality(S) -> S] : \A i, j \in 1..Cardinality(S) : f[i] = f[j] => i = j}

\* the sweep removes nothing
Reaped_None(roster, act) == {}

\* send, first loop: the sessions the sweep removes from the roster
Reaped(roster, act) == {s \in roster : ~act[s]}

\* the frame is put in front of the frames handed over before
FanOut_Front(out, roster, streaming, frame) ==
    [s \in Sessions |->
        IF s \in roster /\ streaming[s] THEN <<frame>> \o out[s] ELSE out[s]]

\* send, second loop: add is called on every session of the roster
FanOut(out, roster, streaming, frame) ==
    [s \in Sessions |->
        IF s \in roster THEN SessionAdd(out[s], frame, streaming[s]) ELSE out[s]]

\* onChunkRead -> send: take mutex_ and sweep the roster; every inactive
\* session gets a detached thread that will stop it, a "Client gone" line on
\* the control channel, and is erased
sendSweep ==
    /\ stopPc = "run"
    /\ producerPc = "idle"
    /\ ops < MaxOps
    /\ ops' = ops + 1
    /\ mutex_ = NoThread
    /\ mutex_' = Producer
    /\ producerPc' = "enqueue"
    /\ chunks' = chunks + 1
    /\ LET gone == Reaped(sessions_, active) IN
        /\ reapTasks' = reapTasks \cup gone
        /\ sessions_' = sessions_ \ gone
        /\ \E order \in Orderings(gone) :
              events' = [i \in 1..(2 * Cardinality(gone)) |->
                            IF i % 2 = 1
                            THEN Notify("Client gone", macAddress[order[(i + 1) \div 2]],
                                        [to |-> order[(i + 1) \div 2]])
                            ELSE Roster("erase", TRUE)]
    /\ UNCHANGED <<accepted, macAddress, active, streamActive, stopCount,
                   disconnected, gotStart, outbound, readerPc, readerReq, config,
                   sampleFormatRef, headerRef, stopPc, toStop, stopping>>

\* send, continued: hand the chunk to every session left and release mutex_
sendEnqueue ==
    /\ producerPc = "enqueue"
    /\ outbound' = FanOut(outbound, sessions_, streamActive, PcmChunk(chunks))
    /\ mutex_' = NoThread
    /\ producerPc' = "idle"
    /\ events' = <<Roster("read", Holds(Producer))>>
    /\ UNCHANGED <<sessions_, accepted, macAddress, active, streamActive, stopCount,
                   disconnected, gotStart, readerPc, readerReq, config,
                   sampleFormatRef, headerRef, chunks, reapTasks, stopPc, toStop, stopping,
                   ops>>

\* the detached thread of send calls stop on the session it was given
reapStop(s) ==
    /\ s \in reapTasks
    /\ reapTasks' = reapTasks \ {s}
    /\ active' = [active EXCEPT ![s] = FALSE]
    /\ stopCount' = [stopCount EXCEPT ![s] = @ + 1]
    /\ events' = <<Stopped(s, Holds(Reaper(s)))>>
    /\ UNCHANGED <<sessions_, mutex_, accepted, macAddress, streamActive,
                   disconnected, gotStart, outbound, readerPc, readerReq, config,
                   sampleFormatRef, headerRef, producerPc, chunks, stopPc, toStop,
                   stopping, ops>>

\* ------------------------- StreamServer::stop --------------------------

\* stop the control server, cancel the acceptor, stop the pipe reader (which
\* waits for a fan-out in progress to return)
stopBegin ==
    /\ stopPc = "run"
    /\ producerPc = "idle"
    /\ ops < MaxOps
    /\ ops' = ops + 1
    /\ stopPc' = "lock"
    /\ events' = <<>>
    /\ UNCHANGED <<sessions_, mutex_, accepted, macAddress, active, streamActive,
                   stopCount, disconnected, gotStart, outbound, readerPc, readerReq,
                   config, sampleFormatRef, headerRef, producerPc, chunks, reapTasks,
                   toStop, stopping>>

\* take mutex_ and start the loop over sessions_
stopLock ==
    /\ stopPc = "lock"
    /\ mutex_ = NoThread
    /\ mutex_' = Stopper
    /\ stopPc' = "sessions"
    /\ toStop' = sessions_
    /\ events' = <<Roster("read", TRUE)>>
    /\ UNCHANGED <<sessions_, accepted, macAddress, active, streamActive, stopCount,
                   disconnected, gotStart, outbound, readerPc, readerReq, config,
                   sampleFormatRef, headerRef, producerPc, chunks, reapTasks,
                   stopping, ops>>

\* one iteration of the loop: stop is called on a session, mutex_ held
stopSession(s) ==
    /\ stopPc = "sessions"
    /\ stopping = 0
    /\ s \in toStop
    /\ stopping' = s
    /\ active' = [active EXCEPT ![s] = FALSE]
    /\ stopCount' = [stopCount EXCEPT ![s] = @ + 1]
    /\ events' = <<Stopped(s, Holds(Stopper))>>
    /\ UNCHANGED <<sessions_, mutex_, accepted, macAddress, streamActive,
                   disconnected, gotStart, outbound, readerPc, readerReq, config,
                   sampleFormatRef, headerRef, producerPc, chunks, reapTasks, stopPc,
                   toStop, ops>>

\* the session's stop returns and the loop goes on
stopReturn ==
    /\ stopPc = "sessions"
    /\ stopping # 0
    /\ CanStop(stopping)
    /\ toStop' = toStop \ {stopping}
    /\ stopping' = 0
    /\ events' = <<>>
    /\ UNCHANGED <<sessions_, mutex_, accepted, macAddress, active, streamActive,
                   stopCount, disconnected, gotStart, outbound, readerPc, readerReq,
                   config, sampleFormatRef, headerRef, producerPc, chunks, reapTasks,
                   stopPc, ops>>

\* the loop is over: release mutex_ and return
stopEnd ==
    /\ stopPc = "sessions"
    /\ toStop = {}
    /\ stopping = 0
    /\ mutex_' = NoThread
    /\ stopPc' = "done"
    /\ events' = <<>>
    /\ UNCHANGED <<sessions_, accepted, macAddress, active, streamActive, stopCount,
                   disconnected, gotStart, outbound, readerPc, readerReq, config,
                   sampleFormatRef, headerRef, producerPc, chunks, reapTasks, toStop,
                   stopping, ops>>

\* --------------------------- JSON-RPC dispatch ------------------------

IsClientSet(method) ==
    method \in {"Client.SetVolume", "Client.SetMute", "Client.SetLatency",
                "Client.SetName", "Client.SetFoo"}

\* the values a request can carry for the parameter its method reads
ValueInputs(method) ==
    CASE method = "Client.SetVolume" -> VolumeInputs
      [] method = "Client.SetMute" -> MuteInputs
      [] method = "Client.SetLatency" -> LatencyInputs
      [] method = "Client.SetName" -> NameInputs
      [] OTHER -> {0}

\* getParam<uint16_t>("volume", 0, 100) accepts the value
VolumeOk(v) == v >= 0 /\ v <= MaxVolume

\* the upper limit off by one
LatencyOk_OffByOne(v) == v >= MinLatency /\ v <= BufferMs + 1

\* the upper limit not checked
LatencyOk_NoUpper(v) == v >= MinLatency

\* getParam<int>("latency", -10000, settings_.bufferMs) accepts the value
LatencyOk(v) == v >= MinLatency /\ v <= BufferMs

\* the request's value passes the range check of its method
ParamOk(method, v) ==
    CASE method = "Client.SetVolume" -> VolumeOk(v)
      [] method = "Client.SetLatency" -> LatencyOk(v)
      [] OTHER -> TRUE

\* the mute flag is not stored
SetField_DropMute(info, method, v) ==
    CASE method = "Client.SetVolume" -> [info EXCEPT !.volume = v]
      [] method = "Client.SetLatency" -> [info EXCEPT !.latency = v]
      [] method = "Client.SetName" -> [info EXCEPT !.name = v]
      [] OTHER -> info

\* the ClientInfo after the method's assignment
SetField(info, method, v) ==
    CASE method = "Client.SetVolume" -> [info EXCEPT !.volume = v]
      [] method = "Client.SetMute" -> [info EXCEPT !.muted = v]
      [] method = "Client.SetLatency" -> [info EXCEPT !.latency = v]
      [] method = "Client.SetName" -> [info EXCEPT !.name = v]
      [] OTHER -> info

\* getClientSession(mac): the sessions of the roster the scan can return
getClientSession(roster, macs, mac) == {s \in roster : macs[s] = mac}

\* System.GetStatus: the clients array of the response
StatusClients(cfg, client) ==
    IF client = NoParam
    THEN {cfg[m] : m \in DOMAIN cfg}
    ELSE IF client \in DOMAIN cfg THEN {cfg[client]} ELSE {}

\* the method is looked at before the client
RpcError_MethodFirst(cfg, method, client, v) ==
    CASE method \notin {"System.GetStatus", "Client.SetVolume", "Client.SetMute",
                        "Client.SetLatency", "Client.SetName"} -> MethodNotFound
      [] method = "System.GetStatus" -> NoError
      [] client = NoParam -> InvalidParams
      [] client \notin DOMAIN cfg -> InternalError
      [] OTHER -> IF ParamOk(method, v) THEN NoError ELSE InvalidParams

\* the error a request ends with, NoError when it succeeds
RpcError(cfg, method, client, v) ==
    CASE IsClientSet(method) /\ client = NoParam -> InvalidParams
      [] IsClientSet(method) /\ client \notin DOMAIN cfg -> InternalError
      [] method = "System.GetStatus" -> NoError
      [] method \in {"Client.SetVolume", "Client.SetMute", "Client.SetLatency",
                     "Client.SetName"} ->
            IF ParamOk(method, v) THEN NoError ELSE InvalidParams
      [] OTHER -> MethodNotFound

ErrorMessage(method, client, error) ==
    IF error = InternalError THEN "Client not found" ELSE ""

\* the notification is emitted before the save
AfterSet_NotifyFirst(info, target) ==
    <<Roster("read", Holds(Control))>>
    \o (IF target = 0 THEN <<>> ELSE <<Sent(target, ServerSettingsMsg(0, info), Holds(Control))>>)
    \o <<Notify("Client.OnUpdate", info.macAddress, info), Save>>

\* the notification left out
AfterSet_NoNotify(info, target) ==
    <<Roster("read", Holds(Control))>>
    \o (IF target = 0 THEN <<>> ELSE <<Sent(target, ServerSettingsMsg(0, info), Holds(Control))>>)
    \o <<Save>>

\* what a successful Client.Set* does after the assignment: push the settings
\* to a session of that MAC if the roster has one, save, notify
AfterSet(info, target) ==
    <<Roster("read", Holds(Control))>>
    \o (IF target = 0 THEN <<>> ELSE <<Sent(target, ServerSettingsMsg(0, info), Holds(Control))>>)
    \o <<Save, Notify("Client.OnUpdate", info.macAddress, info)>>

\* a message that does not parse as a JSON-RPC request
rpcMalformed ==
    /\ stopPc = "run"
    /\ ops < MaxOps
    /\ ops' = ops + 1
    /\ events' = <<Response(0, ParseError, "", 0, "", NoParam, 0)>>
    /\ UNCHANGED <<sessions_, mutex_, accepted, macAddress, active, streamActive,
                   stopCount, disconnected, gotStart, outbound, readerPc, readerReq,
                   config, sampleFormatRef, headerRef, producerPc, chunks, reapTasks,
                   stopPc, toStop, stopping>>

\* onMessageReceived(ControlSession*): one JSON-RPC request, handled without
\* taking mutex_
rpc(method, client, v, id) ==
    /\ stopPc = "run"
    /\ ops < MaxOps
    /\ ops' = ops + 1
    /\ LET error == RpcError(config, method, client, v) IN
       IF error # NoError
       THEN /\ events' = <<Response(id, error, ErrorMessage(method, client, error), 0,
                                 method, client, v)>>
            /\ UNCHANGED <<config, outbound>>
       ELSE IF method = "System.GetStatus"
       THEN /\ events' = <<Response(id, NoError, "", StatusClients(config, client),
                                 method, client, v)>>
            /\ UNCHANGED <<config, outbound>>
       ELSE LET info == SetField(config[client], method, v)
                found == getClientSession(sessions_, macAddress, client) IN
            /\ config' = [config EXCEPT ![client] = info]
            /\ \E target \in (IF found = {} THEN {0} ELSE found) :
                /\ outbound' = IF target = 0 THEN outbound
                               ELSE [outbound EXCEPT ![target] =
                                        SessionSend(@, ServerSettingsMsg(0, info))]
                /\ events' = <<Mutated(client, Holds(Control))>> \o AfterSet(info, target)
                              \o <<Response(id, NoError, "", v, method, client, v)>>
    /\ UNCHANGED <<sessions_, mutex_, accepted, macAddress, active, streamActive,
                   stopCount, disconnected, gotStart, readerPc, readerReq,
                   sampleFormatRef, headerRef, producerPc, chunks, reapTasks,
                   stopPc, toStop, stopping>>

Next ==
    \/ handleAccept
    \/ \E s \in Sessions, mac \in Macs, host \in HostNames, version \in Versions :
          Hello(s, mac, host, version)
    \/ \E s \in Sessions, verb \in Verbs : Command(s, verb)
    \/ \E s \in Sessions : setStreamActive(s)
    \/ \E s \in Sessions, sent \in SentStamps, received \in ReceivedStamps :
          RequestTime(s, sent, received)
    \/ \E s \in Sessions, kind \in RequestKinds : RequestLock(s, kind)
    \/ \E s \in Sessions : RequestReply(s)
    \/ \E s \in Sessions : SessionFail(s)
    \/ \E s \in Sessions : onDisconnect(s)
    \/ sendSweep
    \/ sendEnqueue
    \/ \E s \in Sessions : reapStop(s)
    \/ stopBegin
    \/ stopLock
    \/ \E s \in Sessions : stopSession(s)
    \/ stopReturn
    \/ stopEnd
    \/ rpcMalformed
    \/ \E method \in Methods, client \in ClientParams, id \in RpcIds :
          \E v \in ValueInputs(method) : rpc(method, client, v, id)

Spec == Init /\ [][Next]_vars

\* a detached thread that was spawned runs, and a session that has terminated
\* makes its onDisconnect call
FairSpec ==
    /\ Spec
    /\ \A s \in Sessions : WF_vars(reapStop(s)) /\ WF_vars(onDisconnect(s))

\* every thread of the server that can take its next step takes it: a reader
\* inside a branch of the dispatcher, the producer inside send, the caller of
\* stop, a detached thread, a terminated session
FairDispatchSpec ==
    /\ Spec
    /\ \A s \in Sessions :
          /\ WF_vars(RequestReply(s))
          /\ WF_vars(setStreamActive(s))
          /\ WF_vars(stopSession(s))
          /\ WF_vars(reapStop(s))
          /\ WF_vars(onDisconnect(s))
    /\ WF_vars(sendEnqueue)
    /\ WF_vars(stopLock)
    /\ WF_vars(stopReturn)
    /\ WF_vars(stopEnd)

\* ============================ properties ===============================

\* the events of the last step that satisfy a test
Events(Test(_)) == {i \in DOMAIN events : Test(events[i])}

IsResponse(e) == e.ev = "response"
IsOnUpdate(e) == e.ev = "control" /\ e.what = "Client.OnUpdate"
IsStop(e) == e.ev = "stop"
IsTouch(e) == e.ev \in {"mutate", "roster"}

SetMethods == {"Client.SetVolume", "Client.SetMute", "Client.SetLatency", "Client.SetName"}

\* the sessions of the roster whose Hello bound the MAC
Identified(mac) == {s \in sessions_ : macAddress[s] = mac}

\* C1: for every MAC, the ClientInfo's connected flag is true exactly when an
\* identified session with that MAC is in the roster.
C1_ConnectedIffInRoster ==
    \A mac \in Macs :
        mac \in DOMAIN config => (config[mac].connected <=> Identified(mac) # {})

\* C2: every change of the roster, every change of a ClientInfo and every
\* scan of the roster is made by a thread that holds mutex_.
C2_TouchedUnderMutex ==
    \A i \in Events(IsTouch) : events[i].data.locked

\* C3: a successful Client.Set* request broadcasts exactly one Client.OnUpdate,
\* carrying the target's ClientInfo; System.GetStatus and every request that
\* ends in an error broadcast none.
C3_OneUpdatePerSet ==
    \A i \in Events(IsResponse) :
        LET r == events[i]
            updates == Events(IsOnUpdate)
        IN IF r.what = NoError /\ r.data.method \in SetMethods
           THEN /\ Cardinality(updates) = 1
                /\ \A j \in updates : /\ events[j].mac = r.data.client
                                      /\ events[j].data = config[r.data.client]
           ELSE updates = {}

\* a Client.Set* request has just succeeded
C3_Witness ==
    \E i \in Events(IsResponse) :
        events[i].what = NoError /\ events[i].data.method \in SetMethods

\* the step answers a Client.SetLatency on a known client whose value is
\* outside [MinLatency, BufferMs]
LatencyOutOfRange(r, cfg) ==
    /\ r.ev = "response"
    /\ r.data.method = "Client.SetLatency"
    /\ r.data.client \in DOMAIN cfg
    /\ (r.data.value[2] < MinLatency \/ r.data.value[2] > BufferMs)

\* C4: a Client.SetLatency with a value outside [-10000, bufferMs] on an
\* existing client is answered with invalid-params; no ClientInfo changes,
\* nothing is saved, no ServerSettings is sent and no notification emitted.
C4_LatencyRejected ==
    [][\A i \in DOMAIN events' :
          LatencyOutOfRange(events'[i], config) =>
              /\ events'[i].what = InvalidParams
              /\ config' = config
              /\ outbound' = outbound
              /\ Len(events') = 1]_vars

\* a Client.SetLatency with bufferMs + 1 on a known client has been answered
C4_Witness ==
    \E i \in DOMAIN events :
        /\ LatencyOutOfRange(events[i], config)
        /\ events[i].data.value[2] = BufferMs + 1
        /\ events[i].what = InvalidParams

\* C5: every ClientInfo has MinLatency <= latency <= bufferMs and a volume
\* within 0..100.
C5_SettingsInRange ==
    \A mac \in DOMAIN config :
        /\ config[mac].latency <= BufferMs
        /\ config[mac].latency >= MinLatency
        /\ config[mac].volume >= 0
        /\ config[mac].volume <= MaxVolume

\* a Client.SetLatency has stored the largest value allowed
C5_Witness ==
    \E mac \in DOMAIN config : config[mac].connected /\ config[mac].latency = BufferMs

\* the PCM chunks handed to a session, in the order of the hand-over
ChunksOf(q) == SelectSeq(q, LAMBDA f : f.type = "PcmChunk")

\* the sessions the fan-out has removed from the roster
Gone == {g \in Sessions : g <= accepted /\ g \notin sessions_}

IsGoneLine(e, s) == e.ev = "control" /\ e.what = "Client gone" /\ e.data.to = s
IsOnDisconnect(e, mac) == e.ev = "control" /\ e.what = "Client.OnDisconnect" /\ e.mac = mac

\* the sweep of a fan-out removes exactly the inactive sessions, with one
\* "Client gone: <mac>" line and one detached thread each
C6_Sweep ==
    (producerPc = "idle" /\ producerPc' = "enqueue") =>
        /\ sessions_' = {s \in sessions_ : active[s]}
        /\ \A s \in sessions_ \ sessions_' :
              /\ s \in reapTasks'
              /\ Cardinality({i \in DOMAIN events' : IsGoneLine(events'[i], s)}) = 1
              /\ \A i \in DOMAIN events' :
                    IsGoneLine(events'[i], s) => events'[i].mac = macAddress[s]

\* a session outside the roster is handed no chunk
C6_NoChunk == \A s \in Sessions : s \notin sessions_' => ChunksOf(outbound'[s]) = ChunksOf(outbound[s])

\* the onDisconnect call of a session broadcasts Client.OnDisconnect and
\* leaves the ClientInfo of its MAC disconnected
C6_Disconnect ==
    \A s \in Sessions :
        (disconnected'[s] /\ ~disconnected[s]) =>
            /\ ~config'[macAddress[s]].connected
            /\ \E i \in DOMAIN events' : IsOnDisconnect(events'[i], macAddress[s])

\* stop ran on a removed session once its thread has run, and never before
\* or twice, and the thread does not hold mutex_
C6_StoppedOnce ==
    /\ \A s \in Gone : stopCount[s] = IF s \in reapTasks THEN 0 ELSE 1
    /\ \A i \in Events(IsStop) : events[i].data.to \in Gone => ~events[i].data.locked

\* C6: a session whose active() is false is removed from the roster by the
\* next fan-out, with a "Client gone: <mac>" line; stop is called on it
\* exactly once, from a detached thread; Client.OnDisconnect is broadcast and
\* its ClientInfo is left disconnected; it is handed no chunk by that fan-out
\* or a later one.
C6_InactiveSessionReaped ==
    /\ []C6_StoppedOnce
    /\ [][C6_Sweep /\ C6_NoChunk /\ C6_Disconnect]_vars
    /\ \A s \in Sessions :
          (s \in Gone) ~> (s \notin reapTasks /\ stopCount[s] = 1 /\ disconnected[s])

\* an identified session was removed, stopped and has reported its disconnect
C6_Witness ==
    \E s \in Gone :
        /\ macAddress[s] \in Macs
        /\ s \notin reapTasks
        /\ stopCount[s] = 1
        /\ disconnected[s]
        /\ ~config[macAddress[s]].connected

\* C7: a session holds a PCM chunk only if it has sent Command{startStream}
\* and is streaming.
C7_ChunksOnlyWhenStreaming ==
    \A s \in Sessions : ChunksOf(outbound[s]) # <<>> => gotStart[s] /\ streamActive[s]

\* a chunk was handed to one session while another, not streaming, got none
C7_Witness ==
    \E s, r \in sessions_ :
        /\ ChunksOf(outbound[s]) # <<>>
        /\ ~streamActive[r]
        /\ active[r]

C9_StopNeverStuck ==
    ~ (/\ stopPc = "sessions"
       /\ stopping # 0
       /\ Holds(Stopper)
       /\ readerPc[stopping] = "lock")

\* C10: no call of a session's stop is made by a thread that holds mutex_.
C10_StopOutsideMutex ==
    \A i \in Events(IsStop) : ~events[i].data.locked

IsSend(e) == e.ev = "send"
IsReceive(e) == e.ev = "receive"
IsSave(e) == e.ev = "save"

\* C11: mutex_ is held only by the producer, for the sweep and the enqueue
\* sequence of send, and no frame is handed to a session's send by a thread
\* that holds mutex_, so the producer never waits through mutex_ for a
\* session's socket.
C11_LockOnlyForFanOut ==
    /\ mutex_ \in {NoThread, Producer}
    /\ \A i \in Events(IsSend) : ~events[i].data.locked

\* the methods the dispatcher implements
KnownMethods == SetMethods \cup {"System.GetStatus"}

\* C12: every request whose method is not System.GetStatus, Client.SetVolume,
\* Client.SetMute, Client.SetLatency or Client.SetName is answered with
\* MethodNotFound, whatever its parameters are, and it changes no ClientInfo
\* and emits no notification.
C12_UnknownMethodNotFound ==
    \A i \in Events(IsResponse) :
        (events[i].data.method \in Methods \ KnownMethods) =>
            /\ events[i].what = MethodNotFound
            /\ Len(events) = 1

\* the response answers a Client.Set* request that names a MAC without
\* ClientInfo in cfg
UnknownClientSet(r, cfg) ==
    /\ r.ev = "response"
    /\ IsClientSet(r.data.method)
    /\ r.data.client \in Macs \ DOMAIN cfg

\* C13: a Client.Set* request whose client names a MAC with no ClientInfo is
\* answered with InternalError "Client not found" and the request id; no
\* ClientInfo is created or changed, the roster is unchanged, nothing is
\* saved, no notification and no ServerSettings frame is emitted.
C13_UnknownClientRejected ==
    [][\A i \in DOMAIN events' :
          UnknownClientSet(events'[i], config) =>
              /\ events'[i].what = InternalError
              /\ events'[i].data.message = "Client not found"
              /\ events'[i].data.id \in RpcIds
              /\ Len(events') = 1
              /\ config' = config
              /\ sessions_' = sessions_
              /\ outbound' = outbound]_vars

\* a Client.SetMute on a MAC without ClientInfo was answered while another
\* MAC has a session in the roster
C13_Witness ==
    \E i \in DOMAIN events :
        /\ UnknownClientSet(events[i], config)
        /\ events[i].data.method = "Client.SetMute"
        /\ events[i].what = InternalError
        /\ \E s \in sessions_ : macAddress[s] \in DOMAIN config

IsHello(e) == e.ev = "receive" /\ e.what = "Hello"
IsOnConnect(e) == e.ev = "control" /\ e.what = "Client.OnConnect"

\* C14: on every Hello the session's MAC is the MAC of the Hello, the
\* ClientInfo of that MAC exists with connected = true and the Hello's host
\* name and version, the config is saved, and exactly one Client.OnConnect is
\* broadcast, after the save, carrying that ClientInfo.
C14_HelloRegisters ==
    \A i \in Events(IsHello) :
        LET h == events[i]
            mac == h.mac
            saves == Events(IsSave)
            connects == Events(IsOnConnect)
        IN /\ macAddress[h.data.to] = mac
           /\ mac \in DOMAIN config
           /\ config[mac].connected
           /\ config[mac].hostName = h.data.arg[1]
           /\ config[mac].version = h.data.arg[2]
           /\ Cardinality(saves) = 1
           /\ Cardinality(connects) = 1
           /\ \A j \in connects :
                 /\ events[j].mac = mac
                 /\ events[j].data = config[mac]
                 /\ \A k \in saves : k < j

\* a Hello found the ClientInfo that another session's Hello had created
C14_Witness ==
    \E i \in Events(IsHello) :
        \E r \in Sessions \ {events[i].data.to} : macAddress[r] = events[i].mac

\* C15: a ClientInfo is created only by a Hello from its MAC and is never
\* destroyed; no other operation adds a record to the config store, and no
\* record with an empty MAC is ever created.
C15_CreatedOnlyByHello ==
    [][/\ DOMAIN config \subseteq DOMAIN config'
       /\ \A m \in DOMAIN config' \ DOMAIN config :
             /\ m # NoMac
             /\ \E i \in DOMAIN events' : IsHello(events'[i]) /\ events'[i].mac = m]_vars

\* the event hands session s a ServerSettings frame filled from info
IsSettingsFor(e, s, info) ==
    /\ e.ev = "send"
    /\ e.what = "ServerSettings"
    /\ e.data.to = s
    /\ e.data.frame.volume = info.volume
    /\ e.data.frame.muted = info.muted
    /\ e.data.frame.latency = info.latency
    /\ e.data.frame.bufferMs = BufferMs

\* C16: after a successful Client.Set* on a MAC, a connected session of that
\* MAC in the roster is sent one ServerSettings frame with the volume, muted
\* and latency of the ClientInfo after the change and the server's bufferMs,
\* also when another session of the roster has the same MAC.
C16_LiveSessionGetsSettings ==
    \A i \in Events(IsResponse) :
        LET r == events[i] IN
        (r.what = NoError /\ r.data.method \in SetMethods) =>
            \A s \in sessions_ :
                (macAddress[s] = r.data.client /\ active[s]) =>
                    Cardinality({j \in DOMAIN events :
                        IsSettingsFor(events[j], s, config[r.data.client])}) = 1

\* the field of a ClientInfo that a Client.Set* method writes
FieldOf(info, method) ==
    CASE method = "Client.SetVolume" -> info.volume
      [] method = "Client.SetMute" -> info.muted
      [] method = "Client.SetLatency" -> info.latency
      [] method = "Client.SetName" -> info.name

\* a successful Client.Set* leaves its value in the ClientInfo and returns
\* it; a System.GetStatus returns the ClientInfo records as they are stored
C17_Stored ==
    \A i \in Events(IsResponse) :
        LET r == events[i] IN
        /\ (r.what = NoError /\ r.data.method \in SetMethods) =>
              /\ FieldOf(config[r.data.client], r.data.method) = r.data.value[2]
              /\ r.data.result = <<r.data.method, r.data.value[2]>>
        /\ (r.what = NoError /\ r.data.method = "System.GetStatus") =>
              /\ \A m \in DOMAIN config :
                    r.data.client \in {NoParam, m} <=> config[m] \in r.data.result[2]
              /\ \A x \in r.data.result[2] :
                    x.macAddress \in DOMAIN config /\ x = config[x.macAddress]

\* a field that Client.Set* writes changes only in the step of a successful
\* Client.Set* of that field on that ClientInfo
C17_Kept ==
    \A m \in DOMAIN config : \A method \in SetMethods :
        FieldOf(config'[m], method) # FieldOf(config[m], method) =>
            \E i \in DOMAIN events' :
                /\ events'[i].ev = "response"
                /\ events'[i].what = NoError
                /\ events'[i].data.method = method
                /\ events'[i].data.client = m

\* C17: after a successful Client.SetVolume, SetMute, SetLatency or SetName on
\* a ClientInfo, every later System.GetStatus, with or without the client
\* parameter, returns the record with the new value, and the result of the
\* request is the value stored.
C17_SetThenStatus == []C17_Stored /\ [][C17_Kept]_vars

\* a System.GetStatus with the client parameter returned a volume that a
\* Client.SetVolume had stored
C17_Witness ==
    \E i \in Events(IsResponse) :
        /\ events[i].what = NoError
        /\ events[i].data.method = "System.GetStatus"
        /\ events[i].data.client \in Macs
        /\ \E x \in events[i].data.result[2] : x.volume = 42

IsMutate(e) == e.ev = "mutate"

\* C18: in a successful Client.Set* the ClientInfo is changed, then the config
\* is saved, then Client.OnUpdate is emitted, and only then the response is
\* sent; no Client.OnUpdate is emitted before the save of its change.
C18_SetOrder ==
    /\ \A i \in Events(IsResponse) :
          (events[i].what = NoError /\ events[i].data.method \in SetMethods) =>
              \E m \in Events(IsMutate), s \in Events(IsSave), n \in Events(IsOnUpdate) :
                  /\ events[m].mac = events[i].data.client
                  /\ m < s
                  /\ s < n
                  /\ n < i
    /\ \A n \in Events(IsOnUpdate) :
          /\ \E s \in Events(IsSave) : s < n
          /\ \E m \in Events(IsMutate) : m < n /\ events[m].mac = events[n].mac

\* a successful Client.Set* has pushed the settings to a session on its way
C18_Witness ==
    \E i \in Events(IsResponse), j \in Events(IsSend) :
        /\ events[i].what = NoError
        /\ events[i].data.method \in SetMethods
        /\ events[j].what = "ServerSettings"
        /\ j < i

\* the type of the reply to a request kind
ReplyType(kind) ==
    CASE kind = "kTime" -> "Time"
      [] kind = "kServerSettings" -> "ServerSettings"
      [] kind = "kSampleFormat" -> "SampleFormat"
      [] kind = "kHeader" -> "Header"

\* the sends of the step are exactly one frame, of the reply type of the
\* request kind, to session s, referring to id
OneReply(evs, s, kind, id) ==
    /\ Cardinality({j \in DOMAIN evs : evs[j].ev = "send"}) = 1
    /\ \A j \in DOMAIN evs :
          evs[j].ev = "send" =>
              /\ evs[j].what = ReplyType(kind)
              /\ evs[j].data.to = s
              /\ evs[j].data.frame.refersTo = id

\* a Request{kTime} is answered in the step that receives it, the other
\* requests in the step in which the reader leaves the branch; each with one
\* reply of the matching type, to the same session, referring to the request
C19_RepliesMatch ==
    /\ \A i \in DOMAIN events' :
          (events'[i].ev = "receive" /\ events'[i].what = "Request"
              /\ events'[i].data.arg = <<"kTime">>) =>
                  OneReply(events', events'[i].data.to, "kTime", events'[i].data.id)
    /\ \A s \in Sessions :
          (readerPc[s] = "lock" /\ readerPc'[s] = "idle") =>
              /\ OneReply(events', s, readerReq[s].kind, readerReq[s].id)
              /\ Len(outbound'[s]) = Len(outbound[s]) + 1
              /\ outbound'[s][Len(outbound'[s])].refersTo = readerReq[s].id
              /\ outbound'[s][Len(outbound'[s])].type = ReplyType(readerReq[s].kind)

\* C19: every Request{Time}, {ServerSettings}, {SampleFormat} and {Header} of a
\* session is answered with exactly one reply of the matching type to the same
\* session, in every state of the session, and the reply's refersTo is the id
\* of the request, also when sessions request concurrently.
C19_RequestAnswered ==
    /\ [][C19_RepliesMatch]_vars
    /\ \A s \in Sessions : (readerPc[s] = "lock") ~> (readerPc[s] = "idle")

\* the replies of a step refer to the request being answered
C19_RepliesMatchAlways == [][C19_RepliesMatch]_vars

IsCommand(e) == e.ev = "receive" /\ e.what = "Command"

\* in the outbound order of every session an Ack precedes the first PcmChunk,
\* and a streaming session has been handed an Ack
C20_AckBeforeChunk ==
    \A s \in Sessions :
        /\ \A k \in DOMAIN outbound[s] :
              outbound[s][k].type = "PcmChunk" =>
                  \E j \in 1..(k - 1) : outbound[s][j].type = "Ack"
        /\ streamActive[s] => \E j \in DOMAIN outbound[s] : outbound[s][j].type = "Ack"

\* the step that receives a Command{startStream} hands the session one Ack
\* that refers to the command and does not yet mark it streaming; the step
\* that receives another verb sends nothing and leaves the session as it is
C20_CommandStep ==
    \A i \in DOMAIN events' :
        IsCommand(events'[i]) =>
            LET s == events'[i].data.to
                id == events'[i].data.id
            IN IF events'[i].data.arg = <<"startStream">>
               THEN /\ streamActive' = streamActive
                    /\ Cardinality({j \in DOMAIN events' : events'[j].ev = "send"}) = 1
                    /\ \A j \in DOMAIN events' :
                          events'[j].ev = "send" =>
                              /\ events'[j].what = "Ack"
                              /\ events'[j].data.to = s
                              /\ events'[j].data.frame.refersTo = id
                    /\ outbound'[s] = Append(outbound[s], Frame("Ack", id))
               ELSE /\ Len(events') = 1
                    /\ outbound' = outbound
                    /\ streamActive' = streamActive
                    /\ readerPc' = readerPc

\* C20: on Command{startStream} the Ack, referring to the command, is handed
\* to the session before the session is marked streaming, so in every
\* interleaving with the fan-out the Ack precedes the first PcmChunk of the
\* session; a Command with another verb sends no Ack and leaves the streaming
\* state unchanged.
C20_AckThenStream == []C20_AckBeforeChunk /\ [][C20_CommandStep]_vars

\* a session was handed its Ack, then a chunk, while a fan-out had passed it
\* by before it was marked streaming
C20_Witness ==
    \E s \in Sessions :
        /\ Len(outbound[s]) >= 2
        /\ outbound[s][1].type = "Ack"
        /\ outbound[s][2].type = "PcmChunk"
        /\ outbound[s][2].chunk = 2

====
